---- MODULE Spec2Model ----
(***************************************************************************)
(* Model of ext/rugged/rugged_blob.c: the Ruby binding of a git blob.      *)
(*                                                                         *)
(* Two groups of operations are modelled.                                  *)
(*   - The readers of one blob: blob.text, blob.content, blob.sloc and     *)
(*     blob.binary?.  Each is a function of the blob's raw bytes and of    *)
(*     the Ruby arguments of the call.  Specification Spec draws the raw   *)
(*     bytes from a bounded set and applies the readers to them.           *)
(*   - Blob.from_chunks: the object store pulls chunks through the         *)
(*     callback cb_blob__get__chunk, which calls io.read under rb_rescue.  *)
(*     Specification SpecChunks runs that loop against an io object whose  *)
(*     read may return anything or raise.                                  *)
(*                                                                         *)
(* A byte is a number 0..255; a buffer or a Ruby String is a sequence of   *)
(* bytes.  A Ruby VALUE is a record [t, fits, v]: t is its type tag        *)
(* (T_NIL, T_FIXNUM, T_BIGNUM, T_STRING, T_DATA), and for a T_FIXNUM       *)
(* fits says whether the number is in the range of a C int, v being the    *)
(* number when it is and its sign (1 or -1) when it is not.  Numbers       *)
(* outside the range of a C int are kept symbolic in this way.             *)
(***************************************************************************)
EXTENDS Integers, Sequences, FiniteSets, TLC

VARIABLES
    content,    \* git_blob_rawcontent/git_blob_rawsize of the blob read (Spec)
    call,       \* the reader last called on the blob, with its argv
    ret,        \* what that call returned or raised
    pc,         \* Blob.from_chunks: "idle", "pulling", "done" or "raised"
    max_length, \* the size of the store's chunk buffer, passed to the callback
    reads,      \* what each io.read(max_length) so far returned or raised
    cb,         \* the last run of cb_blob__get__chunk: [n, copied, exc]
    written,    \* the bytes the store has received through the callback
    created     \* the raw bytes of the blob Blob.from_chunks created

vars == <<content, call, ret, pc, max_length, reads, cb, written, created>>

---------------------------------------------------------------------------
(* Bounds of the model *)

\* longest blob buffer
MaxLen == 5
\* longest String io.read returns
MaxChunk == 2
\* most calls of io.read in one Blob.from_chunks
MaxReads == 3
\* largest chunk buffer of the store
MaxBufferSize == 2
\* most bytes of a long blob from two bytes before the end of the binary window on
MaxTail == 3

---------------------------------------------------------------------------
(* Bytes, buffers and Ruby values *)

\* '\n'
NL == 10

\* The number of leading bytes of a blob the binary heuristic looks at.
BinaryWindow == 4000

\* The bytes blobs are made of here: NUL, '\n', ' ' and 'a'.
Bytes == {0, NL, 32, 97}

\* The bytes chunks are made of: '\n' and 'a'.
ChunkBytes == {NL, 97}

SeqsUpTo(S, n) == UNION {[1..k -> S] : k \in 0..n}

Buffers == SeqsUpTo(Bytes, MaxLen)

\* Blobs longer than the window the binary heuristic looks at (4000 bytes):
\* all but the last two bytes of the window are 'a', then come up to
\* MaxTail bytes NUL or 'a', which fall on the last two places of the
\* window and just after it.
LongBuffers ==
    {[i \in 1..(BinaryWindow - 2) |-> 97] \o tail : tail \in SeqsUpTo({0, 97}, MaxTail)}

\* The first n bytes of s (all of s when it is shorter).
Prefix(s, n) == SubSeq(s, 1, IF n < Len(s) THEN n ELSE Len(s))

Qnil == [t |-> "T_NIL", fits |-> TRUE, v |-> 0]

\* A Fixnum in the range of a C int.
Fix(n) == [t |-> "T_FIXNUM", fits |-> TRUE, v |-> n]

\* A Fixnum of a 64-bit build that is above INT_MAX (sign 1) or below INT_MIN (sign -1).
WideFix(sign) == [t |-> "T_FIXNUM", fits |-> FALSE, v |-> sign]

\* An Integer outside the Fixnum range.
Bignum(sign) == [t |-> "T_BIGNUM", fits |-> FALSE, v |-> sign]

\* Some Ruby String, given as a bound.
SomeString == [t |-> "T_STRING", fits |-> FALSE, v |-> 0]

\* An Encoding object other than the default external one.
EncodingUTF8 == [t |-> "T_DATA", fits |-> FALSE, v |-> 0]

\* The int bounds tried: negative, zero, and up to one past the buffer length.
IntArgs == (0 - 2)..(MaxLen + 1)

BoundValues ==
    {Qnil, SomeString} \cup {Fix(n) : n \in IntArgs}
        \cup {WideFix(s) : s \in {1, 0 - 1}} \cup {Bignum(s) : s \in {1, 0 - 1}}

EncodingValues == {Qnil, EncodingUTF8}

\* rb_scan_args with optional arguments: a missing argument reads as nil.
rb_scan_args(argv, k) == IF k <= Len(argv) THEN argv[k] ELSE Qnil

Raise(exc) == [kind |-> "raise", exc |-> exc]

StringResult(bytes, enc) == [kind |-> "string", bytes |-> bytes, enc |-> enc]

IntResult(n) == [kind |-> "int", n |-> n]

BoolResult(b) == [kind |-> "bool", b |-> b]

NoResult == [kind |-> "none"]

\* Check_Type(value, T_FIXNUM) followed by FIX2INT(value): the exception
\* raised, or "ok" when the value converts to a C int.
FIX2INT(value) ==
    IF value.t # "T_FIXNUM" THEN "TypeError"
    ELSE IF ~value.fits THEN "RangeError"
    ELSE "ok"

---------------------------------------------------------------------------
(* blob.text *)

\* TextScan with the line test off by one (lines <= maxlines).
RECURSIVE TextScanOffByOne(_, _, _, _)
TextScanOffByOne(buf, i, lines, maxlines) ==
    IF i < Len(buf) /\ lines <= maxlines
    THEN TextScanOffByOne(buf, i + 1, IF buf[i + 1] = NL THEN lines + 1 ELSE lines, maxlines)
    ELSE i

\* The while loop of blob.text: i bytes consumed, lines newlines seen.
RECURSIVE TextScan(_, _, _, _)
TextScan(buf, i, lines, maxlines) ==
    IF i < Len(buf) /\ lines < maxlines
    THEN TextScan(buf, i + 1, IF buf[i + 1] = NL THEN lines + 1 ELSE lines, maxlines)
    ELSE i

\* TextSize without the test of the sign of maxlines.
TextSizeUnsigned(buf, maxlines) == TextScan(buf, 0, 0, maxlines)

\* The size blob.text keeps for an int maxlines.
TextSize(buf, maxlines) ==
    IF maxlines >= 0 THEN TextScan(buf, 0, 0, maxlines) ELSE Len(buf)

\* The encoding of the String returned by blob.text.
TextEncoding(rb_encoding) ==
    IF rb_encoding = Qnil THEN "default_external" ELSE "UTF-8"

rb_git_blob_text_GET(buf, argv) ==
    LET rb_max_lines == rb_scan_args(argv, 1)
        rb_encoding == rb_scan_args(argv, 2)
    IN  IF rb_max_lines = Qnil
        THEN StringResult(buf, TextEncoding(rb_encoding))
        ELSE IF FIX2INT(rb_max_lines) # "ok"
        THEN Raise(FIX2INT(rb_max_lines))
        ELSE StringResult(SubSeq(buf, 1, TextSize(buf, rb_max_lines.v)),
                          TextEncoding(rb_encoding))

---------------------------------------------------------------------------
(* blob.content *)

\* ContentSize with maxbytes > 0 in place of maxbytes >= 0.
ContentSizeZeroUnlimited(buf, maxbytes) ==
    IF maxbytes > 0 /\ maxbytes < Len(buf) THEN maxbytes ELSE Len(buf)

\* The size blob.content keeps for an int maxbytes.
ContentSize(buf, maxbytes) ==
    IF maxbytes >= 0 /\ maxbytes < Len(buf) THEN maxbytes ELSE Len(buf)

rb_git_blob_content_GET(buf, argv) ==
    LET rb_max_bytes == rb_scan_args(argv, 1)
    IN  IF rb_max_bytes = Qnil
        THEN StringResult(buf, "ASCII-8BIT")
        ELSE IF FIX2INT(rb_max_bytes) # "ok"
        THEN Raise(FIX2INT(rb_max_bytes))
        ELSE StringResult(SubSeq(buf, 1, ContentSize(buf, rb_max_bytes.v)), "ASCII-8BIT")

---------------------------------------------------------------------------
(* blob.sloc *)

\* isspace of <ctype.h> in the C locale.
isspace(c) == c \in {9, 10, 11, 12, 13, 32}

\* SlocSkip that skips nothing.
SlocSkipNothing(buf, p) == p

\* The inner while loop of blob.sloc: from position p, skip whitespace.
RECURSIVE SlocSkip(_, _)
SlocSkip(buf, p) ==
    IF p < Len(buf) /\ isspace(buf[p + 1]) THEN SlocSkip(buf, p + 1) ELSE p

\* The outer while loop of blob.sloc: p bytes consumed, sloc lines counted.
RECURSIVE SlocScan(_, _, _)
SlocScan(buf, p, sloc) ==
    IF p < Len(buf)
    THEN IF buf[p + 1] = NL
         THEN SlocScan(buf, SlocSkip(buf, p + 1), sloc + 1)
         ELSE SlocScan(buf, p + 1, sloc)
    ELSE sloc

\* SlocTail that never counts the unterminated last line.
SlocTailForgotten(buf) == 0

\* The test after the loop: data[-1] is the last byte of the buffer.
SlocTail(buf) == IF buf[Len(buf)] # NL THEN 1 ELSE 0

rb_git_blob_sloc(buf) ==
    IF Len(buf) = 0 THEN 0 ELSE SlocScan(buf, 0, 0) + SlocTail(buf)

---------------------------------------------------------------------------
(* blob.binary? *)

\* The heuristic without its test for NUL: a NUL byte counts as one more
\* non-printable byte.
git_blob_is_binary_ratio_only(buf) ==
    LET head == Prefix(buf, BinaryWindow)
        printable == Cardinality({i \in 1..Len(head) : head[i] > 31 /\ head[i] < 127})
        nonprintable ==
            Cardinality({i \in 1..Len(head) :
                ~(head[i] > 31 /\ head[i] < 127) /\ ~isspace(head[i])})
    IN  (printable \div 128) < nonprintable

\* The heuristic of the object store (git_blob_is_binary), which is not
\* part of rugged_blob.c: over the first BinaryWindow bytes, a NUL byte
\* makes the blob binary, and so does too high a share of non-printable
\* bytes (more than one per 128 printable ones, whitespace not counted).
git_blob_is_binary(buf) ==
    LET head == Prefix(buf, BinaryWindow)
        printable == Cardinality({i \in 1..Len(head) : head[i] > 31 /\ head[i] < 127})
        nonprintable ==
            Cardinality({i \in 1..Len(head) :
                ~(head[i] > 31 /\ head[i] < 127) /\ ~isspace(head[i])})
    IN  (\E i \in 1..Len(head) : head[i] = 0) \/ (printable \div 128) < nonprintable

rb_git_blob_is_binary(buf) == git_blob_is_binary(buf)

---------------------------------------------------------------------------
(* blob.size *)

rb_git_blob_rawsize(buf) == Len(buf)

---------------------------------------------------------------------------
(* Blob.from_chunks *)

\* What one io.read(max_length) does: return a String, nil or an object
\* that is no String, or raise an exception of class exc: a StandardError,
\* or an Exception that is none (Interrupt, NoMemoryError, SystemExit ..).
ReadString(s) == [kind |-> "string", s |-> s, exc |-> ""]

ReadNil == [kind |-> "nil", s |-> <<>>, exc |-> ""]

ReadOther == [kind |-> "other", s |-> <<>>, exc |-> ""]

ReadRaise(exc) == [kind |-> "raise", s |-> <<>>, exc |-> exc]

ExceptionClasses == {"StandardError", "Exception"}

ReadOutcomes ==
    {ReadString(s) : s \in SeqsUpTo(ChunkBytes, MaxChunk)}
        \cup {ReadNil, ReadOther} \cup {ReadRaise(e) : e \in ExceptionClasses}

\* rb_rescue(rb_read_check, args, rb_read_failed, 0): the value of the
\* read, or the value of rb_read_failed, nil, when the read raised a
\* StandardError.  rb_rescue rescues no other exception: it goes on.
rb_rescue(out) ==
    IF out.kind = "raise" /\ out.exc = "StandardError" THEN ReadNil ELSE out

\* One run of the callback on what io.read did.  n is the int returned,
\* copied the bytes memcpy put into the store's buffer.  exc tells that an
\* exception left the callback: it then returns nothing (n is void).
cb_blob__get__chunk(maxlen, out) ==
    LET rb_buffer == rb_rescue(out)
        str_len == Len(rb_buffer.s)
        safe_len == IF str_len > maxlen THEN maxlen ELSE str_len
    IN  IF rb_buffer.kind = "raise"
        THEN [n |-> 0, copied |-> <<>>, exc |-> TRUE]
        ELSE IF rb_buffer.kind # "string"
        THEN [n |-> 0, copied |-> <<>>, exc |-> FALSE]
        ELSE [n |-> safe_len, copied |-> SubSeq(rb_buffer.s, 1, safe_len), exc |-> FALSE]

NoCallback == [n |-> 0, copied |-> <<>>, exc |-> FALSE]

\* The store's loop around the callback (git_blob_create_fromchunks): a
\* positive count is written and the loop goes on, 0 ends the stream and
\* the blob is created, a negative count is an error of the store, which
\* rugged_exception_check raises.  An exception leaving the callback
\* unwinds through the store and leaves Blob.from_chunks: no blob is created.
StoreNext(r) ==
    IF r.exc THEN "raised"
    ELSE IF r.n > 0 THEN "pulling"
    ELSE IF r.n = 0 THEN "done"
    ELSE "raised"

---------------------------------------------------------------------------
(* The readers of a blob *)

TextArgvs ==
    {<<>>} \cup {<<v>> : v \in BoundValues}
        \cup {<<v, e>> : v \in {Qnil, Fix(1)}, e \in EncodingValues}

ContentArgvs == {<<>>} \cup {<<v>> : v \in BoundValues}

Called(op, argv) == [op |-> op, argv |-> argv]

Init ==
    /\ content \in Buffers
    /\ call = Called("lookup", <<>>)
    /\ ret = NoResult
    /\ pc = "idle"
    /\ max_length = 0
    /\ reads = <<>>
    /\ cb = NoCallback
    /\ written = <<>>
    /\ created = <<>>

Text ==
    /\ \E argv \in TextArgvs :
        /\ call' = Called("text", argv)
        /\ ret' = rb_git_blob_text_GET(content, argv)
    /\ UNCHANGED <<content, pc, max_length, reads, cb, written, created>>

Content ==
    /\ \E argv \in ContentArgvs :
        /\ call' = Called("content", argv)
        /\ ret' = rb_git_blob_content_GET(content, argv)
    /\ UNCHANGED <<content, pc, max_length, reads, cb, written, created>>

Size ==
    /\ call' = Called("size", <<>>)
    /\ ret' = IntResult(rb_git_blob_rawsize(content))
    /\ UNCHANGED <<content, pc, max_length, reads, cb, written, created>>

Sloc ==
    /\ call' = Called("sloc", <<>>)
    /\ ret' = IntResult(rb_git_blob_sloc(content))
    /\ UNCHANGED <<content, pc, max_length, reads, cb, written, created>>

IsBinary ==
    /\ call' = Called("binary?", <<>>)
    /\ ret' = BoolResult(rb_git_blob_is_binary(content))
    /\ UNCHANGED <<content, pc, max_length, reads, cb, written, created>>

Next == Text \/ Content \/ Size \/ Sloc \/ IsBinary

Spec == Init /\ [][Next]_vars

---------------------------------------------------------------------------
(* blob.binary? and blob.size on blobs short and long *)

InitBinary ==
    /\ content \in Buffers \cup LongBuffers
    /\ call = Called("lookup", <<>>)
    /\ ret = NoResult
    /\ pc = "idle"
    /\ max_length = 0
    /\ reads = <<>>
    /\ cb = NoCallback
    /\ written = <<>>
    /\ created = <<>>

NextBinary == IsBinary \/ Size

SpecBinary == InitBinary /\ [][NextBinary]_vars

---------------------------------------------------------------------------
(* Blob.from_chunks(repository, io [, hint_path]) *)

HintValues == {Qnil, SomeString, Fix(0)}

InitChunks ==
    /\ content = <<>>
    /\ call = Called("lookup", <<>>)
    /\ ret = NoResult
    /\ pc = "idle"
    /\ max_length = 0
    /\ reads = <<>>
    /\ cb = NoCallback
    /\ written = <<>>
    /\ created = <<>>

\* Blob.from_chunks up to the call of the store: a hint_path that is
\* neither nil nor a String raises TypeError before anything is read.
FromChunksBegin ==
    /\ pc = "idle"
    /\ \E rb_hint_path \in HintValues, size \in 1..MaxBufferSize :
        IF rb_hint_path # Qnil /\ rb_hint_path.t # "T_STRING"
        THEN /\ pc' = "raised"
             /\ max_length' = max_length
        ELSE /\ pc' = "pulling"
             /\ max_length' = size
    /\ UNCHANGED <<content, call, ret, reads, cb, written, created>>

\* The store asks for the next chunk: io.read runs, the callback returns,
\* and the store writes the chunk, or ends the stream and creates the blob.
PullChunk ==
    /\ pc = "pulling"
    /\ Len(reads) < MaxReads
    /\ \E out \in ReadOutcomes :
        LET r == cb_blob__get__chunk(max_length, out)
        IN  /\ reads' = Append(reads, out)
            /\ cb' = r
            /\ pc' = StoreNext(r)
            /\ written' = IF StoreNext(r) = "pulling" THEN written \o r.copied ELSE written
            /\ created' = IF StoreNext(r) = "done" THEN written ELSE created
    /\ UNCHANGED <<content, call, ret, max_length>>

NextChunks == FromChunksBegin \/ PullChunk

SpecChunks == InitChunks /\ [][NextChunks]_vars

---------------------------------------------------------------------------
(* Vocabulary of the properties *)

Min(a, b) == IF a < b THEN a ELSE b

\* The positions of buf that hold '\n'.
NewlinesOf(buf) == {i \in 1..Len(buf) : buf[i] = NL}

\* The number of '\n' among the first i bytes of buf.
NewlinesUpTo(buf, i) == Cardinality({j \in NewlinesOf(buf) : j <= i})

\* The index just past the n-th '\n' of buf, the length of buf when it
\* holds fewer than n of them, and 0 for n = 0.
LineCut(buf, n) ==
    IF n = 0 THEN 0
    ELSE IF Cardinality(NewlinesOf(buf)) >= n
    THEN CHOOSE i \in NewlinesOf(buf) : NewlinesUpTo(buf, i) = n
    ELSE Len(buf)

\* The call in the current state passes an int bound (a Fixnum in the
\* range of a C int) as its first argument.
IntBound == Len(call.argv) >= 1 /\ call.argv[1].t = "T_FIXNUM" /\ call.argv[1].fits

\* The call passes an Integer as its first argument, of whatever size.
IntegerBound == Len(call.argv) >= 1 /\ call.argv[1].t \in {"T_FIXNUM", "T_BIGNUM"}

\* The call passes no bound, nil, or a negative int.
Unlimited ==
    \/ Len(call.argv) = 0
    \/ call.argv[1] = Qnil
    \/ IntBound /\ call.argv[1].v < 0

\* The index of the line byte i of buf lies on: the number of '\n' before it.
LineOf(buf, i) == NewlinesUpTo(buf, i - 1)

\* The lines of buf, terminated or not, that hold a non-whitespace byte.
NonEmptyLines(buf) == {LineOf(buf, i) : i \in {j \in 1..Len(buf) : ~isspace(buf[j])}}

\* The '\n' of buf that end the first line or a line with a
\* non-whitespace byte.
CountedNewlines(buf) ==
    {i \in NewlinesOf(buf) : LineOf(buf, i) = 0 \/ LineOf(buf, i) \in NonEmptyLines(buf)}

RECURSIVE Concat(_)
Concat(ss) == IF ss = <<>> THEN <<>> ELSE Head(ss) \o Concat(Tail(ss))

\* The last read made so far raised.
LastReadRaised == Len(reads) > 0 /\ reads[Len(reads)].kind = "raise"

\* The last read made so far raised a StandardError.
LastReadRaisedStandardError == LastReadRaised /\ reads[Len(reads)].exc = "StandardError"

---------------------------------------------------------------------------
(* Properties *)

\* C1 as stated: blob.text(N) with an int N >= 0 returns the prefix of the
\* buffer that ends just past its N-th '\n', or the whole buffer when it
\* holds fewer than N newlines; the result holds min(N, newlines of the
\* buffer) newlines, N = 0 gives the empty string, and N >= the newlines
\* of the buffer gives the whole buffer.
C1_TextFirstLines ==
    (call.op = "text" /\ IntBound /\ call.argv[1].v >= 0) =>
        /\ ret.kind = "string"
        /\ ret.bytes = SubSeq(content, 1, LineCut(content, call.argv[1].v))
        /\ Cardinality(NewlinesOf(ret.bytes))
             = Min(call.argv[1].v, Cardinality(NewlinesOf(content)))
        /\ (call.argv[1].v = 0 => ret.bytes = <<>>)
        /\ (call.argv[1].v >= Cardinality(NewlinesOf(content)) => ret.bytes = content)

\* C1 as amended: the same, but the whole buffer is returned for N > the
\* newlines of the buffer, and for N = the newlines of the buffer only
\* when the buffer is empty or ends with '\n'.
C1_TextFirstLinesAmended ==
    (call.op = "text" /\ IntBound /\ call.argv[1].v >= 0) =>
        /\ ret.kind = "string"
        /\ ret.bytes = SubSeq(content, 1, LineCut(content, call.argv[1].v))
        /\ Cardinality(NewlinesOf(ret.bytes))
             = Min(call.argv[1].v, Cardinality(NewlinesOf(content)))
        /\ (call.argv[1].v = 0 => ret.bytes = <<>>)
        /\ (call.argv[1].v > Cardinality(NewlinesOf(content)) => ret.bytes = content)
        /\ (/\ call.argv[1].v = Cardinality(NewlinesOf(content))
            /\ (content = <<>> \/ content[Len(content)] = NL)) => ret.bytes = content

\* blob.text(1) on a buffer with bytes after its first '\n' cut them off.
C1_Witness ==
    /\ call.op = "text" /\ IntBound /\ call.argv[1].v = 1
    /\ Cardinality(NewlinesOf(content)) >= 2
    /\ ret.kind = "string" /\ ret.bytes # content /\ ret.bytes # <<>>

\* C2: blob.content(N) with an int N >= 0 returns the first
\* min(N, length) bytes of the buffer.
C2_ContentFirstBytes ==
    (call.op = "content" /\ IntBound /\ call.argv[1].v >= 0) =>
        /\ ret.kind = "string"
        /\ ret.bytes = SubSeq(content, 1, Min(call.argv[1].v, Len(content)))
        /\ (call.argv[1].v = 0 => ret.bytes = <<>>)
        /\ (call.argv[1].v >= Len(content) => ret.bytes = content)

\* blob.content(0) on a non-empty buffer returned the empty string.
C2_Witness ==
    /\ call.op = "content" /\ IntBound /\ call.argv[1].v = 0
    /\ Len(content) > 0
    /\ ret.kind = "string" /\ ret.bytes = <<>>

\* C3: blob.text and blob.content with no bound, a nil bound or a negative
\* int bound return the bytes of the buffer, as many as blob.size says.
C3_UnlimitedIsIdentity ==
    /\ (call.op \in {"text", "content"} /\ Unlimited) =>
        /\ ret.kind = "string"
        /\ ret.bytes = content
        /\ Len(ret.bytes) = rb_git_blob_rawsize(content)
    /\ (call.op = "size" => ret.n = Len(content))

\* blob.text(-2) returned a buffer that holds newlines.
C3_Witness ==
    /\ call.op = "text" /\ IntBound /\ call.argv[1].v = 0 - 2
    /\ Cardinality(NewlinesOf(content)) >= 2
    /\ ret.kind = "string" /\ Len(ret.bytes) = MaxLen

\* C4: blob.text(N) and blob.content(N) return a byte range of the buffer
\* for every Integer N, of whatever magnitude, and never raise: a bound
\* beyond the buffer, negative or positive, gives the whole buffer.
C4_NeverRejectsAnInteger ==
    (call.op \in {"text", "content"} /\ IntegerBound) =>
        /\ ret.kind = "string"
        /\ ~IntBound => ret.bytes = content

\* C5: blob.sloc is the number of lines of the buffer, the unterminated
\* last one included, that hold at least one non-whitespace byte.
C5_SlocCountsNonEmptyLines ==
    call.op = "sloc" => ret.n = Cardinality(NonEmptyLines(content))

\* C8: blob.sloc is the number of '\n' that end the first line or a line
\* with a non-whitespace byte, plus one when the buffer is not empty and
\* does not end with '\n'.
C8_SlocScanRule ==
    call.op = "sloc" =>
        ret.n = Cardinality(CountedNewlines(content))
                  + (IF Len(content) > 0 /\ content[Len(content)] # NL THEN 1 ELSE 0)

\* blob.sloc passed over a blank line and counted an unterminated tail.
C8_Witness ==
    /\ call.op = "sloc"
    /\ Cardinality(NewlinesOf(content)) = 2
    /\ content[Len(content)] # NL
    /\ ret.n = 2

\* C9: taking a blank line that follows a newline out of the buffer leaves
\* blob.sloc as it is: sloc(u \n w \n v) = sloc(u \n v) for whitespace w.
C9_BlankLineAddsNothing ==
    call.op = "sloc" =>
        \A i, j \in NewlinesOf(content) :
            (i < j /\ \A k \in (i + 1)..(j - 1) : isspace(content[k])) =>
                ret.n = rb_git_blob_sloc(
                            SubSeq(content, 1, i) \o SubSeq(content, j + 1, Len(content)))

\* blob.sloc ran on u \n w \n v with u and v not blank and w a non-empty
\* run of whitespace.
C9_Witness ==
    /\ call.op = "sloc"
    /\ \E i, j \in NewlinesOf(content) :
         /\ 1 < i /\ i + 1 < j /\ j < Len(content)
         /\ \A k \in (i + 1)..(j - 1) : isspace(content[k])
         /\ ~isspace(content[1]) /\ ~isspace(content[Len(content)])
    /\ ret.n = 2

\* C7: blob.binary? is true of every buffer with a NUL byte among its
\* first 4000 bytes (anywhere in it when it is shorter).
C7_NulMakesBinary ==
    (call.op = "binary?"
        /\ \E i \in 1..Min(BinaryWindow, Len(content)) : content[i] = 0) =>
        ret.b = TRUE

\* blob.binary? ran on a buffer longer than 4000 bytes whose only NUL is
\* its 4000th byte, the last one of the window, with 3999 printable bytes
\* before it: too few non-printable bytes for the ratio to tell.
C7_Witness ==
    /\ call.op = "binary?"
    /\ Len(content) > BinaryWindow
    /\ \A i \in 1..Len(content) : content[i] = 0 <=> i = BinaryWindow
    /\ ret.b = TRUE

\* C6: when a read raises, Blob.from_chunks ends there without raising and
\* the blob is the concatenation of the chunks the earlier reads returned;
\* no read follows the failing one.
C6_BlobIsChunksBeforeFailure ==
    /\ \A k \in 1..Len(reads) : reads[k].kind = "raise" => k = Len(reads)
    /\ LastReadRaised =>
        /\ pc = "done"
        /\ created = Concat([k \in 1..(Len(reads) - 1) |-> reads[k].s])

\* What does hold of Blob.from_chunks: no read follows one that raised, and
\* when the read raised a StandardError the blob is created from the chunks
\* of the earlier reads, each cut to its first max_length bytes.
FromChunksAfterStandardError ==
    /\ \A k \in 1..Len(reads) : reads[k].kind = "raise" => k = Len(reads)
    /\ LastReadRaisedStandardError =>
        /\ pc = "done"
        /\ created = Concat([k \in 1..(Len(reads) - 1) |-> Prefix(reads[k].s, max_length)])

\* The third read raised a StandardError after two reads that returned chunks.
FromChunksAfterStandardErrorReached ==
    /\ LastReadRaisedStandardError
    /\ Len(reads) = 3
    /\ pc = "done"
    /\ Len(created) >= 2

\* C10: whatever io.read did, the callback returns a count n with
\* 0 <= n <= max_length and copies the first n bytes of the String read,
\* n being 0 for nil, a non-String, an empty String and an exception;
\* nothing but those n bytes reaches the store.
C10_CallbackCountIsSafe ==
    Len(reads) > 0 =>
        LET out == reads[Len(reads)]
        IN  /\ ~cb.exc
            /\ cb.n >= 0 /\ cb.n <= max_length
            /\ cb.n = Min(Len(out.s), max_length)
            /\ cb.copied = SubSeq(out.s, 1, cb.n)
            /\ (out.kind # "string" \/ out.s = <<>>) => cb.n = 0
            /\ pc # "raised"
            /\ Len(written) <= max_length * Len(reads)

\* What does hold of the callback: the same, for every read but one that
\* raises an exception that is no StandardError.
CallbackCountIsSafeWhenRescued ==
    (Len(reads) > 0 /\ ~(LastReadRaised /\ ~LastReadRaisedStandardError)) =>
        LET out == reads[Len(reads)]
        IN  /\ ~cb.exc
            /\ cb.n >= 0 /\ cb.n <= max_length
            /\ cb.n = Min(Len(out.s), max_length)
            /\ cb.copied = SubSeq(out.s, 1, cb.n)
            /\ (out.kind # "string" \/ out.s = <<>>) => cb.n = 0
            /\ pc # "raised"
            /\ Len(written) <= max_length * Len(reads)

\* A read raised an exception that is no StandardError: it left the
\* callback and Blob.from_chunks, and no blob was created.
UnrescuedReadReached ==
    /\ LastReadRaised /\ ~LastReadRaisedStandardError
    /\ Len(reads) = 2
    /\ cb.exc
    /\ pc = "raised"
    /\ written # <<>> /\ created = <<>>

====
